---------------------------- MODULE Spec2Model ----------------------------
(***************************************************************************)
(* Plan-and-Execute travel agent                                           *)
(* (src/langchain_demo/02_advanced/02_plan_execute_agent.py).              *)
(*                                                                         *)
(* Conventions of the model                                                *)
(*   - an identifier-like Python str (a tool name, a step name, a          *)
(*     parameter value) is a TLA+ string; the Chinese literals of the      *)
(*     source are written in ASCII ("Beijing" for the city, "history" for  *)
(*     the preference, ...);                                               *)
(*   - a text built with an f-string or with += is the sequence of its     *)
(*     pieces, so the empty str "" is << >>;                               *)
(*   - Optional[str] is a sequence of at most one text: None is << >>,     *)
(*     the text t is << t >>;                                              *)
(*   - a call that may raise yields [raised, value]: the returned value,   *)
(*     or str(e) of the exception.                                         *)
(***************************************************************************)
EXTENDS Integers, Sequences, FiniteSets, TLC

\* Longest plan (number of steps) the model draws.
MaxSteps == 3

\* Longest tool list handed to the executor's constructor in SpecRegistry.
MaxTools == 3

None == << >>

Some(t) == << t >>

Return(t) == [raised |-> FALSE, value |-> t]

Raise(t) == [raised |-> TRUE, value |-> t]

Min(a, b) == IF a <= b THEN a ELSE b

(***************************************************************************)
(* int(s) of the parameter strings the plans of the model carry.           *)
(***************************************************************************)
IntLiterals ==
    { <<"0", 0>>, <<"2", 2>>, <<"3", 3>>, <<"50", 50>>, <<"100", 100>>,
      <<"300", 300>>, <<"550", 550>>, <<"600", 600>>, <<"4350", 4350>>,
      <<"5000", 5000>> }

\* int(s) raises ValueError
IsValueError(s) == \A l \in IntLiterals : l[1] # s

int(s) == (CHOOSE l \in IntLiterals : l[1] = s)[2]

---------------------------------------------------------------------------
(***************************************************************************)
(* The five tools                                                          *)
(***************************************************************************)
weather_patterns == {"Beijing", "Shanghai", "Chengdu", "Guangzhou", "Hangzhou", "Shenzhen"}

\* get_weather_forecast without the try around int(days)
get_weather_forecast_no_catch(p) ==
    IF IsValueError(p.days)
    THEN Raise(<<"invalid literal for int() with base 10: '", p.days, "'">>)
    ELSE IF p.city \notin weather_patterns
    THEN Return(<<"sorry, no weather data for ", p.city>>)
    ELSE Return(<<"forecast header ", p.city, p.days>>
                \o [d \in 1..(IF int(p.days) < 0 THEN 0 ELSE Min(int(p.days), 7)) |-> "day line"]
                \o <<"hint: simulated data">>)

get_weather_forecast(p) ==
    IF IsValueError(p.days)
    THEN Return(<<"error: days '", p.days, "' is not a valid number">>)
    ELSE IF p.city \notin weather_patterns
    THEN Return(<<"sorry, no weather data for ", p.city>>)
    ELSE Return(<<"forecast header ", p.city, p.days>>
                \o [d \in 1..(IF int(p.days) < 0 THEN 0 ELSE Min(int(p.days), 7)) |-> "day line"]
                \o <<"hint: simulated data">>)

\* attractions_db: city -> preference -> ticket prices of the attractions
attractions_db ==
    [Beijing  |-> [history |-> {60, 40, 15, 30, 25}, modern |-> {0}, nature |-> {10}],
     Shanghai |-> [history |-> {0, 40}, modern |-> {220, 0}],
     Chengdu  |-> [history |-> {60, 0}, nature |-> {55, 90}, modern |-> {0}]]

\* [x.strip() for x in preferences.split(',')]
split_preferences(s) ==
    CASE s = "history,nature" -> {"history", "nature"}
      [] s = "history, modern" -> {"history", "modern"}
      [] OTHER -> {s}

search_attractions_by_preference(p) ==
    IF IsValueError(p.duration)
    THEN Return(<<"error: days '", p.duration, "' is not a valid number">>)
    ELSE IF p.city \notin DOMAIN attractions_db
    THEN Return(<<"sorry, no attraction data for ", p.city>>)
    ELSE IF split_preferences(p.preferences) \cap DOMAIN attractions_db[p.city] = {}
    THEN Return(<<"no attraction matches '", p.preferences, "'">>)
    ELSE Return(<<"attractions header ", p.city, p.duration, p.preferences,
                  "ticket total", "hint: simulated data">>)

\* hotels_db: city -> prices per night
hotels_db ==
    [Beijing  |-> {800, 600, 200, 150, 80},
     Shanghai |-> {900, 700, 250, 180},
     Chengdu  |-> {650, 280, 160}]

search_accommodation(p) ==
    IF IsValueError(p.budget_per_night) \/ IsValueError(p.duration)
    THEN Return(<<"error: budget or days is not a valid number">>)
    ELSE IF p.city \notin DOMAIN hotels_db
    THEN Return(<<"sorry, no accommodation data for ", p.city>>)
    ELSE IF {h \in hotels_db[p.city] : h <= int(p.budget_per_night)} = {}
    THEN Return(<<"no accommodation within budget ", p.budget_per_night>>)
    ELSE Return(<<"hotels header ", p.city, p.budget_per_night, p.duration,
                  "hint: simulated data">>)

transport_data ==
    { <<"Beijing", "Shanghai">>, <<"Shanghai", "Beijing">>,
      <<"Beijing", "Chengdu">>, <<"Chengdu", "Beijing">> }

search_transportation(p) ==
    IF <<p.departure, p.destination>> \notin transport_data
    THEN Return(<<"sorry, no transport data from ", p.departure, " to ", p.destination>>)
    ELSE Return(<<"transport header ", p.departure, p.destination, p.travel_date,
                  "hint: simulated data">>)

calculate_budget_breakdown(p) ==
    IF \/ IsValueError(p.total_budget) \/ IsValueError(p.transportation_cost)
       \/ IsValueError(p.accommodation_cost) \/ IsValueError(p.attraction_cost)
    THEN Return(<<"error: budget data is not a valid number">>)
    ELSE LET total == int(p.total_budget)
             used == int(p.transportation_cost) + int(p.accommodation_cost)
                     + int(p.attraction_cost)
             remaining == total - used
         IN  IF total = 0
             THEN Raise(<<"division by zero">>)  \* transport / total
             ELSE Return(<<"budget header ", p.total_budget, "planned costs">>
                         \o (IF remaining > 0 THEN <<"remaining budget", "budget is sufficient">>
                             ELSE IF remaining = 0 THEN <<"budget exactly used">>
                             ELSE <<"over budget">>))

\* the parameters each tool function declares (its args_schema)
args_schema(func) ==
    CASE func = "get_weather_forecast" -> {"city", "days"}
      [] func = "search_attractions_by_preference" -> {"city", "preferences", "duration"}
      [] func = "search_accommodation" -> {"city", "budget_per_night", "duration"}
      [] func = "search_transportation" -> {"departure", "destination", "travel_date"}
      [] func = "calculate_budget_breakdown" ->
            {"total_budget", "transportation_cost", "accommodation_cost", "attraction_cost"}

\* tool_func.invoke(parameters): the input is validated against the tool's
\* schema (a missing argument raises), then the function runs
invoke(tool_func, parameters) ==
    IF ~(args_schema(tool_func.func) \subseteq DOMAIN parameters)
    THEN Raise(<<"validation error: field required for ", tool_func.name>>)
    ELSE CASE tool_func.func = "get_weather_forecast" -> get_weather_forecast(parameters)
           [] tool_func.func = "search_attractions_by_preference" ->
                 search_attractions_by_preference(parameters)
           [] tool_func.func = "search_accommodation" -> search_accommodation(parameters)
           [] tool_func.func = "search_transportation" -> search_transportation(parameters)
           [] tool_func.func = "calculate_budget_breakdown" ->
                 calculate_budget_breakdown(parameters)

\* @tool: a tool object; its name is the name of the decorated function
tool(func) == [name |-> func, func |-> func]

get_available_tools ==
    << tool("get_weather_forecast"),
       tool("search_attractions_by_preference"),
       tool("search_accommodation"),
       tool("search_transportation"),
       tool("calculate_budget_breakdown") >>

---------------------------------------------------------------------------
(***************************************************************************)
(* Plans                                                                   *)
(***************************************************************************)
TravelStep(step_name, tool_name, parameters) ==
    [step_name |-> step_name, tool_name |-> tool_name, parameters |-> parameters]

TravelPlan(steps) ==
    [destination |-> "Beijing", duration |-> 3, budget |-> 5000,
     preferences |-> <<"history">>, steps |-> steps]

\* the default plan naming a tool by a name no tool has
_create_default_plan_wrong_name ==
    TravelPlan(<<
        TravelStep("get weather", "get_weather_forecast",
                   [city |-> "Beijing", days |-> "3"]),
        TravelStep("search attractions", "search_attractions",
                   [city |-> "Beijing", preferences |-> "history", duration |-> "3"]),
        TravelStep("find accommodation", "search_accommodation",
                   [city |-> "Beijing", budget_per_night |-> "300", duration |-> "2"]) >>)

_create_default_plan ==
    TravelPlan(<<
        TravelStep("get weather", "get_weather_forecast",
                   [city |-> "Beijing", days |-> "3"]),
        TravelStep("search attractions", "search_attractions_by_preference",
                   [city |-> "Beijing", preferences |-> "history", duration |-> "3"]),
        TravelStep("find accommodation", "search_accommodation",
                   [city |-> "Beijing", budget_per_night |-> "300", duration |-> "2"]) >>)

\* The steps the plans of the model are drawn from: the three steps of the
\* default plan, and steps that take the other paths of execute_step (an
\* unknown tool, a tool that raises, a tool that returns an error text).
StepPool ==
    { _create_default_plan.steps[1],
      _create_default_plan.steps[2],
      _create_default_plan.steps[3],
      TravelStep("get weather", "get_weather_forecast",
                 [city |-> "Beijing", days |-> "abc"]),
      TravelStep("get weather", "get_weather_forecast", [city |-> "Beijing"]),
      TravelStep("search attractions", "search_attractions_by_preference",
                 [city |-> "Shanghai", preferences |-> "nature", duration |-> "2"]),
      TravelStep("find accommodation", "search_accommodation",
                 [city |-> "Chengdu", budget_per_night |-> "50", duration |-> "2"]),
      TravelStep("arrange transport", "search_transportation",
                 [departure |-> "Shanghai", destination |-> "Beijing",
                  travel_date |-> "2024-03-15"]),
      TravelStep("budget analysis", "calculate_budget_breakdown",
                 [total_budget |-> "5000", transportation_cost |-> "550",
                  accommodation_cost |-> "600", attraction_cost |-> "100"]),
      TravelStep("budget analysis", "calculate_budget_breakdown",
                 [total_budget |-> "0", transportation_cost |-> "550",
                  accommodation_cost |-> "600", attraction_cost |-> "100"]),
      TravelStep("book flight", "book_flight", [city |-> "Beijing"]) }

Plans == { TravelPlan(s) : s \in UNION { [1..n -> StepPool] : n \in 0..MaxSteps } }

---------------------------------------------------------------------------
(***************************************************************************)
(* State                                                                   *)
(***************************************************************************)
VARIABLES
    available_tools,  \* the list TravelExecutor.__init__ builds its map from
    tools,            \* TravelExecutor.tools: tool name -> tool
    plan,             \* the argument of execute_plan
    pc,               \* "new", "ready", "loop", "record", "done", "crashed"
    i,                \* execute_plan: the 1-based index of the loop
    step_result,      \* execute_plan: the local of the loop, << >> when unset
    results,          \* execute_plan: results
    success_count,    \* execute_plan: success_count
    report,           \* what execute_plan returned, << >> before it returns
    executed,         \* history: the step indices execute_step was called with
    invoked,          \* history: the tool invocations, in the order made
    stage,            \* process_request: how far the request has come
    user_input,       \* process_request: the argument
    plan_source,      \* create_plan: "llm" (the chain's plan) or "default"
    synth_input,      \* what the summarizer chain was called with, << >> before
    outcome,          \* what process_request handed its caller, << >> before
    peer,             \* the locals of a second execute_plan call on the executor
    users,            \* web_project: the rows of the users table, in id order
    tasks,            \* web_project: the rows of the tasks table, task id -> row
    response,         \* what the last request or call returned, with its arguments
    now,              \* the clock datetime.now() / datetime.utcnow() reads
    chat_history_store,  \* chat_app: session id -> ChatMessageHistory
    session_metadata,    \* chat_app: session id -> {"last_active": datetime}
    next_oid,         \* the identity the next ChatMessageHistory object gets
    deleted           \* history: the task ids whose deletion succeeded

\* the state of PlanAndExecuteAgent.process_request and of the second call
agent_vars == << stage, user_input, plan_source, synth_input, outcome, peer >>

\* the state of the task manager (web_project) and of the chat session store
service_vars == << users, tasks, response, now, chat_history_store, session_metadata,
                   next_oid, deleted >>

vars == << available_tools, tools, plan, pc, i, step_result, results,
           success_count, report, executed, invoked, agent_vars, service_vars >>

\* no request of the task manager or the chat application has been made
NoResponse == [op |-> "none"]

ServiceIdle ==
    /\ users = << >>
    /\ tasks = << >>
    /\ response = NoResponse
    /\ now = 0
    /\ chat_history_store = << >>
    /\ session_metadata = << >>
    /\ next_oid = 1
    /\ deleted = {}

StepResult(step_name, tool_name, success, result, error_message) ==
    [step_name |-> step_name, tool_name |-> tool_name, success |-> success,
     result |-> result, error_message |-> error_message]

ExecutionReport(p, rs, sc, tc, rate) ==
    [plan |-> p, results |-> rs, success_count |-> sc, total_count |-> tc,
     success_rate |-> rate]

\* a / b of two ints: the quotient as the fraction num/den, or ZeroDivisionError
truediv(a, b) ==
    IF b = 0 THEN Raise(<<"division by zero">>) ELSE Return([num |-> a, den |-> b])

\* the int 0 as a fraction
zero == [num |-> 0, den |-> 1]

---------------------------------------------------------------------------
(***************************************************************************)
(* TravelExecutor                                                          *)
(***************************************************************************)
\* dict_of keeping, for a name that occurs twice, the first tool
RECURSIVE dict_of_keep_first(_)
dict_of_keep_first(ts) ==
    IF ts = << >> THEN << >>
    ELSE LET d == dict_of_keep_first(SubSeq(ts, 1, Len(ts) - 1))
             t == ts[Len(ts)]
         IN  [n \in DOMAIN d \cup {t.name} |-> IF n \in DOMAIN d THEN d[n] ELSE t]

\* {tool.name: tool for tool in ts}: the entries are written in list order,
\* each write replacing what the key held
RECURSIVE dict_of(_)
dict_of(ts) ==
    IF ts = << >> THEN << >>
    ELSE LET d == dict_of(SubSeq(ts, 1, Len(ts) - 1))
             t == ts[Len(ts)]
         IN  [n \in DOMAIN d \cup {t.name} |-> IF n = t.name THEN t ELSE d[n]]

TravelExecutor_init ==
    /\ pc = "new"
    /\ tools' = dict_of(available_tools)
    /\ pc' = "ready"
    /\ UNCHANGED << available_tools, plan, i, step_result, results, success_count,
                    report, executed, invoked >>
    /\ UNCHANGED agent_vars
    /\ UNCHANGED service_vars

\* what execute_step hands back: the StepResult it returns (or the exception
\* that leaves it) and the tool invocations it made
Returned(sr, calls) == [raised |-> FALSE, value |-> sr, calls |-> calls]

\* an exception leaving execute_step (no path of the source does this)
Propagated(text, calls) == [raised |-> TRUE, value |-> text, calls |-> calls]

Call(step) == [tool_name |-> step.tool_name, parameters |-> step.parameters]

\* execute_step without the membership test: the lookup raises KeyError
\* inside the try
execute_step_no_membership_test(self_tools, step) ==
    IF step.tool_name \notin DOMAIN self_tools
    THEN Returned(StepResult(step.step_name, step.tool_name, FALSE, << >>,
                             Some(<<"'", step.tool_name, "'">>)), << >>)
    ELSE LET out == invoke(self_tools[step.tool_name], step.parameters)
         IN  IF ~out.raised
             THEN Returned(StepResult(step.step_name, step.tool_name, TRUE, out.value, None),
                           <<Call(step)>>)
             ELSE Returned(StepResult(step.step_name, step.tool_name, FALSE, << >>,
                                      Some(out.value)), <<Call(step)>>)

\* execute_step without the try/except around the invocation
execute_step_no_try(self_tools, step) ==
    IF step.tool_name \notin DOMAIN self_tools
    THEN Returned(StepResult(step.step_name, step.tool_name, FALSE, << >>,
                             Some(<<"unknown tool: ", step.tool_name>>)), << >>)
    ELSE LET out == invoke(self_tools[step.tool_name], step.parameters)
         IN  IF ~out.raised
             THEN Returned(StepResult(step.step_name, step.tool_name, TRUE, out.value, None),
                           <<Call(step)>>)
             ELSE Propagated(out.value, <<Call(step)>>)

\* execute_step whose except branch puts str(e) in result and leaves
\* error_message unset
execute_step_error_in_result(self_tools, step) ==
    IF step.tool_name \notin DOMAIN self_tools
    THEN Returned(StepResult(step.step_name, step.tool_name, FALSE, << >>,
                             Some(<<"unknown tool: ", step.tool_name>>)), << >>)
    ELSE LET out == invoke(self_tools[step.tool_name], step.parameters)
         IN  IF ~out.raised
             THEN Returned(StepResult(step.step_name, step.tool_name, TRUE, out.value, None),
                           <<Call(step)>>)
             ELSE Returned(StepResult(step.step_name, step.tool_name, FALSE, out.value,
                                      None), <<Call(step)>>)

\* execute_step reading the payload: a result that begins with "error" is
\* recorded as a failed step
execute_step_error_text_fails(self_tools, step) ==
    IF step.tool_name \notin DOMAIN self_tools
    THEN Returned(StepResult(step.step_name, step.tool_name, FALSE, << >>,
                             Some(<<"unknown tool: ", step.tool_name>>)), << >>)
    ELSE LET out == invoke(self_tools[step.tool_name], step.parameters)
         IN  IF ~out.raised /\ ~(out.value # << >> /\ out.value[1] = "error: days '")
             THEN Returned(StepResult(step.step_name, step.tool_name, TRUE, out.value, None),
                           <<Call(step)>>)
             ELSE Returned(StepResult(step.step_name, step.tool_name, FALSE, << >>,
                                      Some(out.value)), <<Call(step)>>)

execute_step(self_tools, step) ==
    IF step.tool_name \notin DOMAIN self_tools
    THEN Returned(StepResult(step.step_name, step.tool_name, FALSE, << >>,
                             Some(<<"unknown tool: ", step.tool_name>>)), << >>)
    ELSE LET out == invoke(self_tools[step.tool_name], step.parameters)
         IN  IF ~out.raised
             THEN Returned(StepResult(step.step_name, step.tool_name, TRUE, out.value, None),
                           <<Call(step)>>)
             ELSE \* except Exception as e
                  Returned(StepResult(step.step_name, step.tool_name, FALSE, << >>,
                                      Some(out.value)), <<Call(step)>>)

\* execute_plan, lines 630-631
execute_plan_begin ==
    /\ pc = "ready"
    /\ results' = << >>
    /\ success_count' = 0
    /\ i' = 1
    /\ pc' = "loop"
    /\ UNCHANGED << available_tools, tools, plan, step_result, report, executed, invoked >>
    /\ UNCHANGED agent_vars
    /\ UNCHANGED service_vars

\* the history entry of one tool invocation: the step it was made for and
\* how many results were recorded when it was made
Invocation(call, index, recorded) ==
    [index |-> index, tool_name |-> call.tool_name, parameters |-> call.parameters,
     recorded |-> recorded]

\* the loop calling execute_step only for a step it has not seen yet, and
\* reusing the result of the identical earlier step otherwise
execute_plan_call_dedup ==
    /\ pc = "loop"
    /\ i <= Len(plan.steps)
    /\ IF \E k \in 1..(i - 1) : plan.steps[k] = plan.steps[i]
       THEN /\ step_result' = << results[CHOOSE k \in 1..(i - 1) : plan.steps[k] = plan.steps[i]] >>
            /\ pc' = "record"
            /\ UNCHANGED << executed, invoked >>
       ELSE LET r == execute_step(tools, plan.steps[i])
            IN  /\ executed' = Append(executed, i)
                /\ invoked' = invoked \o [k \in 1..Len(r.calls) |->
                                            Invocation(r.calls[k], i, Len(results))]
                /\ step_result' = << r.value >>
                /\ pc' = "record"
    /\ UNCHANGED << available_tools, tools, plan, i, results, success_count, report >>
    /\ UNCHANGED agent_vars
    /\ UNCHANGED service_vars

\* the loop handing a step the outcome of the step before it, as a parameter
execute_plan_call_feeds_previous ==
    /\ pc = "loop"
    /\ i <= Len(plan.steps)
    /\ LET step == IF i > 1 /\ results[i - 1].success
                   THEN [plan.steps[i] EXCEPT !.parameters =
                            [n \in DOMAIN @ |-> IF n = "city" THEN "previous result" ELSE @[n]]]
                   ELSE plan.steps[i]
           r == execute_step(tools, step)
       IN  /\ executed' = Append(executed, i)
           /\ invoked' = invoked \o [k \in 1..Len(r.calls) |->
                                       Invocation(r.calls[k], i, Len(results))]
           /\ step_result' = << r.value >>
           /\ pc' = "record"
    /\ UNCHANGED << available_tools, tools, plan, i, results, success_count, report >>
    /\ UNCHANGED agent_vars
    /\ UNCHANGED service_vars

\* execute_step, line 614: tool.invoke is called synchronously and waited
\* for; the call of a tool whose function never returns never ends
Blocked(self_tools, step) ==
    /\ step.tool_name \in DOMAIN self_tools
    /\ self_tools[step.tool_name].func = "never_returns"

\* the loop giving up a call that does not return and recording a failed
\* result for it
execute_plan_call_with_timeout ==
    /\ pc = "loop"
    /\ i <= Len(plan.steps)
    /\ LET r == IF Blocked(tools, plan.steps[i])
                THEN Returned(StepResult(plan.steps[i].step_name, plan.steps[i].tool_name,
                                         FALSE, << >>, Some(<<"Timeout">>)),
                              <<Call(plan.steps[i])>>)
                ELSE execute_step(tools, plan.steps[i])
       IN  /\ executed' = Append(executed, i)
           /\ invoked' = invoked \o [k \in 1..Len(r.calls) |->
                                       Invocation(r.calls[k], i, Len(results))]
           /\ step_result' = << r.value >>
           /\ pc' = "record"
    /\ UNCHANGED << available_tools, tools, plan, i, results, success_count, report >>
    /\ UNCHANGED agent_vars
    /\ UNCHANGED service_vars

\* execute_plan, lines 633-639: the loop takes the next step of the plan and
\* calls execute_step, which returns when the tool does
execute_plan_call ==
    /\ pc = "loop"
    /\ i <= Len(plan.steps)
    /\ ~Blocked(tools, plan.steps[i])
    /\ LET r == execute_step(tools, plan.steps[i])
       IN  /\ executed' = Append(executed, i)
           /\ invoked' = invoked \o [k \in 1..Len(r.calls) |->
                                       Invocation(r.calls[k], i, Len(results))]
           /\ IF r.raised
              THEN /\ pc' = "crashed"
                   /\ UNCHANGED step_result
              ELSE /\ step_result' = << r.value >>
                   /\ pc' = "record"
    /\ UNCHANGED << available_tools, tools, plan, i, results, success_count, report >>
    /\ UNCHANGED agent_vars
    /\ UNCHANGED service_vars

\* the loop leaving at the first failed step
execute_plan_record_break ==
    /\ pc = "record"
    /\ results' = Append(results, step_result[1])
    /\ success_count' = IF step_result[1].success THEN success_count + 1 ELSE success_count
    /\ i' = IF step_result[1].success THEN i + 1 ELSE Len(plan.steps) + 1
    /\ pc' = "loop"
    /\ UNCHANGED << available_tools, tools, plan, step_result, report, executed, invoked >>
    /\ UNCHANGED agent_vars
    /\ UNCHANGED service_vars

\* the loop counting every step as a success
execute_plan_record_count_all ==
    /\ pc = "record"
    /\ results' = Append(results, step_result[1])
    /\ success_count' = success_count + 1
    /\ i' = i + 1
    /\ pc' = "loop"
    /\ UNCHANGED << available_tools, tools, plan, step_result, report, executed, invoked >>
    /\ UNCHANGED agent_vars
    /\ UNCHANGED service_vars

\* the loop putting each result in front of the earlier ones
execute_plan_record_prepend ==
    /\ pc = "record"
    /\ results' = << step_result[1] >> \o results
    /\ success_count' = IF step_result[1].success THEN success_count + 1 ELSE success_count
    /\ i' = i + 1
    /\ pc' = "loop"
    /\ UNCHANGED << available_tools, tools, plan, step_result, report, executed, invoked >>
    /\ UNCHANGED agent_vars
    /\ UNCHANGED service_vars

\* results kept on the executor instead of in a local of the call: the
\* result is appended to the list every call in progress uses
execute_plan_record_shared_results ==
    /\ pc = "record"
    /\ results' = Append(results, step_result[1])
    /\ peer' = IF peer.pc \in {"loop", "record"}
               THEN [peer EXCEPT !.results = Append(@, step_result[1])]
               ELSE peer
    /\ success_count' = IF step_result[1].success THEN success_count + 1 ELSE success_count
    /\ i' = i + 1
    /\ pc' = "loop"
    /\ UNCHANGED << available_tools, tools, plan, step_result, report, executed, invoked >>
    /\ UNCHANGED << stage, user_input, plan_source, synth_input, outcome >>
    /\ UNCHANGED service_vars

\* the loop marking in the plan the step it has recorded
execute_plan_record_marks_step ==
    /\ pc = "record"
    /\ results' = Append(results, step_result[1])
    /\ success_count' = IF step_result[1].success THEN success_count + 1 ELSE success_count
    /\ plan' = [plan EXCEPT !.steps[i].step_name = "done"]
    /\ i' = i + 1
    /\ pc' = "loop"
    /\ UNCHANGED << available_tools, tools, step_result, report, executed, invoked >>
    /\ UNCHANGED agent_vars
    /\ UNCHANGED service_vars

\* execute_plan, lines 640-646: the result is appended and counted, and the
\* loop moves on whatever the result
execute_plan_record ==
    /\ pc = "record"
    /\ results' = Append(results, step_result[1])
    /\ success_count' = IF step_result[1].success THEN success_count + 1 ELSE success_count
    /\ i' = i + 1
    /\ pc' = "loop"
    /\ UNCHANGED << available_tools, tools, plan, step_result, report, executed, invoked >>
    /\ UNCHANGED agent_vars
    /\ UNCHANGED service_vars

\* the report counting only the steps that succeeded as its total
execute_plan_return_total_of_successes ==
    /\ pc = "loop"
    /\ i > Len(plan.steps)
    /\ report' = << ExecutionReport(plan, results, success_count, success_count,
                                    IF success_count > 0
                                    THEN truediv(success_count, success_count).value
                                    ELSE zero) >>
    /\ pc' = "done"
    /\ UNCHANGED << available_tools, tools, plan, i, step_result, results, success_count,
                    executed, invoked >>
    /\ UNCHANGED agent_vars
    /\ UNCHANGED service_vars

\* the report dividing without the total_count > 0 test
execute_plan_return_unguarded ==
    /\ pc = "loop"
    /\ i > Len(plan.steps)
    /\ LET total_count == Len(plan.steps)
           success_rate == truediv(success_count, total_count)
       IN  IF success_rate.raised
           THEN /\ pc' = "crashed"
                /\ UNCHANGED report
           ELSE /\ report' = << ExecutionReport(plan, results, success_count, total_count,
                                                success_rate.value) >>
                /\ pc' = "done"
    /\ UNCHANGED << available_tools, tools, plan, i, step_result, results, success_count,
                    executed, invoked >>
    /\ UNCHANGED agent_vars
    /\ UNCHANGED service_vars

\* execute_plan, lines 648-658: the loop is over, the report is built and
\* returned
execute_plan_return ==
    /\ pc = "loop"
    /\ i > Len(plan.steps)
    /\ LET total_count == Len(plan.steps)
           success_rate == IF total_count > 0 THEN truediv(success_count, total_count)
                           ELSE Return(zero)
       IN  IF success_rate.raised
           THEN /\ pc' = "crashed"
                /\ UNCHANGED report
           ELSE /\ report' = << ExecutionReport(plan, results, success_count, total_count,
                                                success_rate.value) >>
                /\ pc' = "done"
    /\ UNCHANGED << available_tools, tools, plan, i, step_result, results, success_count,
                    executed, invoked >>
    /\ UNCHANGED agent_vars
    /\ UNCHANGED service_vars

---------------------------------------------------------------------------
(***************************************************************************)
(* Specifications                                                          *)
(***************************************************************************)
\* no second call of execute_plan
NoPeer == [pc |-> "none"]

\* One executor, built from get_available_tools(), executes one plan.
Init ==
    /\ available_tools = get_available_tools
    /\ tools = << >>
    /\ plan \in Plans
    /\ pc = "new"
    /\ i = 0
    /\ step_result = << >>
    /\ results = << >>
    /\ success_count = 0
    /\ report = << >>
    /\ executed = << >>
    /\ invoked = << >>
    /\ stage = "planned"
    /\ user_input = "trip to Beijing"
    /\ plan_source = "llm"
    /\ synth_input = << >>
    /\ outcome = << >>
    /\ peer = NoPeer
    /\ ServiceIdle

Next ==
    \/ TravelExecutor_init
    \/ execute_plan_begin
    \/ execute_plan_call
    \/ execute_plan_record
    \/ execute_plan_return

Spec == Init /\ [][Next]_vars

\* The tools a list handed to the constructor may hold: tools of two names,
\* each wrapping one of three functions.
ToolPool ==
    { [name |-> n, func |-> f] :
        n \in {"get_weather_forecast", "search_accommodation"},
        f \in {"get_weather_forecast", "search_accommodation", "search_transportation"} }

ToolLists == UNION { [1..n -> ToolPool] : n \in 0..MaxTools }

\* The constructor alone, over every tool list of the pool.
InitRegistry ==
    /\ available_tools \in ToolLists
    /\ tools = << >>
    /\ plan = TravelPlan(<< >>)
    /\ pc = "new"
    /\ i = 0
    /\ step_result = << >>
    /\ results = << >>
    /\ success_count = 0
    /\ report = << >>
    /\ executed = << >>
    /\ invoked = << >>
    /\ stage = "planned"
    /\ user_input = "trip to Beijing"
    /\ plan_source = "llm"
    /\ synth_input = << >>
    /\ outcome = << >>
    /\ peer = NoPeer
    /\ ServiceIdle

NextRegistry == TravelExecutor_init

SpecRegistry == InitRegistry /\ [][NextRegistry]_vars

MaxLiveSteps == 3

\* a tool added to the list get_available_tools returns whose function
\* never returns (each of the five tools of the source returns)
never_returns == [name |-> "wait_for_reply", func |-> "never_returns"]

LiveStepPool ==
    { _create_default_plan.steps[1],
      TravelStep("budget analysis", "calculate_budget_breakdown",
                 [total_budget |-> "0", transportation_cost |-> "550",
                  accommodation_cost |-> "600", attraction_cost |-> "100"]),
      TravelStep("book flight", "book_flight", [city |-> "Beijing"]),
      TravelStep("wait for reply", "wait_for_reply", [city |-> "Beijing"]) }

LivePlans == { TravelPlan(s) : s \in UNION { [1..n -> LiveStepPool] : n \in 0..MaxLiveSteps } }

\* One executor whose tool list also holds a tool that never returns; the
\* interpreter takes every step of execute_plan that can be taken.
InitLive ==
    /\ available_tools = get_available_tools \o << never_returns >>
    /\ tools = << >>
    /\ plan \in LivePlans
    /\ pc = "new"
    /\ i = 0
    /\ step_result = << >>
    /\ results = << >>
    /\ success_count = 0
    /\ report = << >>
    /\ executed = << >>
    /\ invoked = << >>
    /\ stage = "planned"
    /\ user_input = "trip to Beijing"
    /\ plan_source = "llm"
    /\ synth_input = << >>
    /\ outcome = << >>
    /\ peer = NoPeer
    /\ ServiceIdle

SpecLive == InitLive /\ [][Next]_vars /\ WF_vars(Next)

MaxConcurrentSteps == 2

\* a second call of execute_plan on the same executor, not yet begun
PeerCall(p) ==
    [pc |-> "ready", plan |-> p, i |-> 0, step_result |-> << >>, results |-> << >>,
     success_count |-> 0, report |-> << >>]

\* execute_plan, lines 630-631, in the second call
peer_begin ==
    /\ pc # "new"
    /\ peer.pc = "ready"
    /\ peer' = [peer EXCEPT !.results = << >>, !.success_count = 0, !.i = 1, !.pc = "loop"]
    /\ UNCHANGED << available_tools, tools, plan, pc, i, step_result, results,
                    success_count, report, executed, invoked >>
    /\ UNCHANGED << stage, user_input, plan_source, synth_input, outcome >>
    /\ UNCHANGED service_vars

\* execute_plan, lines 633-639, in the second call: execute_step reads
\* self.tools
peer_call ==
    /\ peer.pc = "loop"
    /\ peer.i <= Len(peer.plan.steps)
    /\ ~Blocked(tools, peer.plan.steps[peer.i])
    /\ LET r == execute_step(tools, peer.plan.steps[peer.i])
       IN  peer' = IF r.raised THEN [peer EXCEPT !.pc = "crashed"]
                   ELSE [peer EXCEPT !.step_result = << r.value >>, !.pc = "record"]
    /\ UNCHANGED << available_tools, tools, plan, pc, i, step_result, results,
                    success_count, report, executed, invoked >>
    /\ UNCHANGED << stage, user_input, plan_source, synth_input, outcome >>
    /\ UNCHANGED service_vars

\* execute_plan, lines 640-646, in the second call
peer_record ==
    /\ peer.pc = "record"
    /\ peer' = [peer EXCEPT !.results = Append(@, peer.step_result[1]),
                            !.success_count = IF peer.step_result[1].success
                                              THEN @ + 1 ELSE @,
                            !.i = @ + 1,
                            !.pc = "loop"]
    /\ UNCHANGED << available_tools, tools, plan, pc, i, step_result, results,
                    success_count, report, executed, invoked >>
    /\ UNCHANGED << stage, user_input, plan_source, synth_input, outcome >>
    /\ UNCHANGED service_vars

\* execute_plan, lines 648-658, in the second call
peer_return ==
    /\ peer.pc = "loop"
    /\ peer.i > Len(peer.plan.steps)
    /\ LET total_count == Len(peer.plan.steps)
           success_rate == IF total_count > 0 THEN truediv(peer.success_count, total_count)
                           ELSE Return(zero)
       IN  peer' = IF success_rate.raised THEN [peer EXCEPT !.pc = "crashed"]
                   ELSE [peer EXCEPT !.report = << ExecutionReport(peer.plan, peer.results,
                                                      peer.success_count, total_count,
                                                      success_rate.value) >>,
                                     !.pc = "done"]
    /\ UNCHANGED << available_tools, tools, plan, pc, i, step_result, results,
                    success_count, report, executed, invoked >>
    /\ UNCHANGED << stage, user_input, plan_source, synth_input, outcome >>
    /\ UNCHANGED service_vars

ConcurrentStepPool ==
    { _create_default_plan.steps[1],
      TravelStep("budget analysis", "calculate_budget_breakdown",
                 [total_budget |-> "0", transportation_cost |-> "550",
                  accommodation_cost |-> "600", attraction_cost |-> "100"]),
      TravelStep("book flight", "book_flight", [city |-> "Beijing"]) }

ConcurrentPlans ==
    { TravelPlan(s) : s \in UNION { [1..n -> ConcurrentStepPool] : n \in 0..MaxConcurrentSteps } }

\* One executor and two calls of execute_plan on it whose steps interleave.
InitConcurrent ==
    /\ available_tools = get_available_tools
    /\ tools = << >>
    /\ plan \in ConcurrentPlans
    /\ pc = "new"
    /\ i = 0
    /\ step_result = << >>
    /\ results = << >>
    /\ success_count = 0
    /\ report = << >>
    /\ executed = << >>
    /\ invoked = << >>
    /\ stage = "planned"
    /\ user_input = "trip to Beijing"
    /\ plan_source = "llm"
    /\ synth_input = << >>
    /\ outcome = << >>
    /\ peer \in { PeerCall(p) : p \in ConcurrentPlans }
    /\ ServiceIdle

NextConcurrent ==
    \/ TravelExecutor_init
    \/ execute_plan_begin
    \/ execute_plan_call
    \/ execute_plan_record
    \/ execute_plan_return
    \/ peer_begin
    \/ peer_call
    \/ peer_record
    \/ peer_return

SpecConcurrent == InitConcurrent /\ [][NextConcurrent]_vars

---------------------------------------------------------------------------
(***************************************************************************)
(* Properties                                                              *)
(***************************************************************************)
Registered(step) == step.tool_name \in DOMAIN tools

\* the invocation of a registered step's tool raises
Raises(step) == Registered(step) /\ invoke(tools[step.tool_name], step.parameters).raised

\* the invocation of a registered step's tool returns
Returns(step) == Registered(step) /\ ~invoke(tools[step.tool_name], step.parameters).raised

\* the entries of the invocation history made for step k
InvocationsOf(k) == { c \in 1..Len(invoked) : invoked[c].index = k }

\* C1: for every plan with N steps (N >= 0), execute_plan returns a report
\* whose total_count is N and whose results list has exactly N entries,
\* whatever mix of steps succeed, fail or name unknown tools.
C1_TotalCountIsN ==
    /\ pc # "crashed"
    /\ pc = "done" =>
          /\ Len(report) = 1
          /\ report[1].total_count = Len(plan.steps)
          /\ Len(report[1].results) = Len(plan.steps)

\* a returned report of a three-step plan in which one step succeeded, one
\* raised and one named an unknown tool
C1_Witness ==
    /\ pc = "done"
    /\ Len(plan.steps) = 3
    /\ report[1].total_count = 3
    /\ \E a, b, c \in 1..3 :
          /\ Returns(plan.steps[a])
          /\ Raises(plan.steps[b])
          /\ ~Registered(plan.steps[c])

\* C2: a failing step never prevents later steps from executing: once a
\* failed result (the tool raised, or the tool is unknown) is recorded for
\* step k, the loop goes on with step k+1, and when execute_plan returns
\* every later step j has been executed and has its own StepResult at
\* position j.
C2_FailureDoesNotStopLaterSteps ==
    \A k \in 1..Len(results) :
        ~results[k].success =>
            /\ pc \in {"loop", "record", "done"}
            /\ pc = "loop" => i = Len(results) + 1
            /\ pc = "done" =>
                  \A j \in (k + 1)..Len(plan.steps) :
                      /\ \E e \in 1..Len(executed) : executed[e] = j
                      /\ j <= Len(results)
                      /\ results[j].step_name = plan.steps[j].step_name
                      /\ results[j].tool_name = plan.steps[j].tool_name

\* a returned report whose first step raised, whose second step named an
\* unknown tool and whose third step then succeeded
C2_Witness ==
    /\ pc = "done"
    /\ Len(plan.steps) = 3
    /\ Raises(plan.steps[1]) /\ ~results[1].success
    /\ ~Registered(plan.steps[2]) /\ ~results[2].success
    /\ Returns(plan.steps[3]) /\ results[3].success
    /\ Len(invoked) = 2

\* C3: a step naming an unregistered tool yields a failed StepResult whose
\* error message names the unknown tool; no tool is invoked for that step
\* and no exception leaves the executor.
C3_UnknownToolIsFailedResult ==
    /\ pc # "crashed"
    /\ \A k \in 1..Len(results) :
          ~Registered(plan.steps[k]) =>
              /\ results[k].success = FALSE
              /\ results[k].error_message =
                    Some(<<"unknown tool: ", plan.steps[k].tool_name>>)
              /\ InvocationsOf(k) = {}

\* the result of a step naming the unregistered tool book_flight has been
\* recorded, and no tool has been invoked so far
C3_Witness ==
    /\ Len(results) = 1
    /\ plan.steps[1].tool_name = "book_flight"
    /\ ~Registered(plan.steps[1])
    /\ results[1].success = FALSE
    /\ invoked = << >>

\* C4: the executor does not throw for step-level problems: when the
\* invocation of a registered tool raises, execute_step returns a StepResult
\* with success = false and the exception's message, and execute_plan still
\* returns an ExecutionReport.
C4_RaisingToolIsFailedResult ==
    /\ pc # "crashed"
    /\ \A k \in 1..Len(results) :
          Raises(plan.steps[k]) =>
              /\ results[k].success = FALSE
              /\ results[k].error_message =
                    Some(invoke(tools[plan.steps[k].tool_name],
                                plan.steps[k].parameters).value)
              /\ pc = "done" => Len(report) = 1 /\ report[1].results[k] = results[k]

\* a report has been returned for a plan in which calculate_budget_breakdown
\* divided by a total budget of 0
C4_Witness ==
    /\ pc = "done"
    /\ Len(report) = 1
    /\ \E k \in 1..Len(plan.steps) :
          /\ plan.steps[k].tool_name = "calculate_budget_breakdown"
          /\ Raises(plan.steps[k])
          /\ report[1].results[k].error_message = Some(<<"division by zero">>)
          /\ InvocationsOf(k) # {}

\* C5: in every ExecutionReport, success_count is the number of entries of
\* results with success = true and total_count is len(results), hence
\* 0 <= success_count <= total_count; the running count of the loop is the
\* number of successes recorded so far.
C5_CountsMatchResults ==
    /\ success_count = Cardinality({ k \in 1..Len(results) : results[k].success })
    /\ pc = "done" =>
          LET r == report[1]
          IN  /\ r.success_count =
                    Cardinality({ k \in 1..Len(r.results) : r.results[k].success })
              /\ r.total_count = Len(r.results)
              /\ 0 <= r.success_count
              /\ r.success_count <= r.total_count

\* a report with two successes out of three results
C5_Witness ==
    /\ pc = "done"
    /\ report[1].total_count = 3
    /\ report[1].success_count = 2
    /\ \E k \in 1..3 : ~report[1].results[k].success

\* C6: success_rate is success_count / total_count when total_count > 0 and
\* 0 when total_count = 0 (a plan with no step yields total 0, success 0,
\* rate 0, and no division error); the rate lies in [0, 1].
C6_SuccessRate ==
    /\ pc # "crashed"
    /\ pc = "done" =>
          LET r == report[1]
          IN  /\ r.total_count > 0 =>
                    /\ r.success_rate.den > 0
                    /\ r.success_rate.num * r.total_count
                          = r.success_count * r.success_rate.den
              /\ r.total_count = 0 =>
                    /\ r.success_rate.num = 0
                    /\ r.success_rate.den > 0
                    /\ r.success_count = 0
              /\ 0 <= r.success_rate.num
              /\ r.success_rate.num <= r.success_rate.den
              /\ Len(plan.steps) = 0 => r.total_count = 0

\* the report of a plan with no step has been returned, with rate 0
C6_Witness ==
    /\ pc = "done"
    /\ plan.steps = << >>
    /\ report[1].total_count = 0
    /\ report[1].success_rate.num = 0

\* C7: steps execute strictly in plan order, one after the other:
\* execute_step is called for the steps 1, 2, 3, ... in that order, once
\* each, identical steps included; the tool invocation of a step is made
\* only when the results of all earlier steps are recorded, with the tool
\* and the parameters of that step; when execute_plan returns every step
\* has been executed, and every step with a registered tool has been
\* invoked exactly once.
C7_SequentialInPlanOrder ==
    /\ executed = [k \in 1..Len(executed) |-> k]
    /\ Len(executed) = IF pc = "record" THEN Len(results) + 1 ELSE Len(results)
    /\ \A c \in 1..Len(invoked) :
          /\ invoked[c].index \in 1..Len(plan.steps)
          /\ invoked[c].recorded = invoked[c].index - 1
          /\ invoked[c].tool_name = plan.steps[invoked[c].index].tool_name
          /\ invoked[c].parameters = plan.steps[invoked[c].index].parameters
          /\ \A d \in 1..(c - 1) : invoked[d].index < invoked[c].index
    /\ pc = "done" =>
          /\ Len(executed) = Len(plan.steps)
          /\ \A k \in 1..Len(plan.steps) :
                Cardinality(InvocationsOf(k)) = IF Registered(plan.steps[k]) THEN 1 ELSE 0

\* a plan whose first two steps are identical has been executed, and the
\* tool was invoked for each of the two
C7_Witness ==
    /\ pc = "done"
    /\ Len(plan.steps) >= 2
    /\ plan.steps[1] = plan.steps[2]
    /\ Registered(plan.steps[1])
    /\ InvocationsOf(1) # {}
    /\ InvocationsOf(2) # {}

\* C8: for every index k, results[k] is the outcome of plan.steps[k]: its
\* step_name and tool_name are those of that step, so the results are in
\* plan order, in the loop and in the returned report.
C8_ResultsInPlanOrder ==
    /\ Len(results) <= Len(plan.steps)
    /\ \A k \in 1..Len(results) :
          /\ results[k].step_name = plan.steps[k].step_name
          /\ results[k].tool_name = plan.steps[k].tool_name
          /\ results[k].success = Returns(plan.steps[k])
    /\ pc = "done" => report[1].results = results

\* the report of a plan of three steps with three different step names and
\* tools
C8_Witness ==
    /\ pc = "done"
    /\ Len(report[1].results) = 3
    /\ Cardinality({ report[1].results[k].step_name : k \in 1..3 }) = 3
    /\ Cardinality({ plan.steps[k].tool_name : k \in 1..3 }) = 3

\* C9: in every StepResult the success payload is present (result is not
\* the empty str) if and only if success is true, and the error message is
\* present (error_message is not None) if and only if success is false.
C9_PayloadIffSuccess ==
    /\ \A k \in 1..Len(results) :
          /\ (results[k].result # << >>) <=> results[k].success
          /\ (results[k].error_message # None) <=> ~results[k].success
    /\ \A k \in 1..Len(step_result) :
          /\ (step_result[k].result # << >>) <=> step_result[k].success
          /\ (step_result[k].error_message # None) <=> ~step_result[k].success

\* results hold a success with its payload, the failure of a tool that
\* raised and the failure of an unknown tool
C9_Witness ==
    \E a, b, c \in 1..Len(results) :
        /\ results[a].success /\ results[a].result # << >>
        /\ Raises(plan.steps[b]) /\ results[b].error_message # None
        /\ ~Registered(plan.steps[c]) /\ results[c].result = << >>

\* the positions of the tools named n in the list ts
Positions(ts, n) == { k \in 1..Len(ts) : ts[k].name = n }

First(S) == CHOOSE k \in S : \A m \in S : k <= m

Last(S) == CHOOSE k \in S : \A m \in S : m <= k

HasDuplicate(ts) == \E a, b \in 1..Len(ts) : a < b /\ ts[a].name = ts[b].name

---------------------------------------------------------------------------
(***************************************************************************)
(* TravelPlanner, PlanAndExecuteAgent and the interactive loop             *)
(***************************************************************************)
\* Longest plan the plan generator answers with in SpecAgent.
MaxAgentSteps == 2

UserInputs == {"trip to Beijing", "weekend in Chengdu"}

\* What the planner chain's model may answer: a TravelPlan in JSON, a JSON
\* object that breaks a constraint of TravelPlan (duration: ge=1), or text
\* that is no JSON.
LlmPlanAnswers ==
    { TravelPlan(st) : st \in UNION { [1..n -> StepPool] : n \in 0..MaxAgentSteps } }
    \cup { [TravelPlan(<< _create_default_plan.steps[1] >>) EXCEPT !.duration = 0],
           [text |-> "no JSON"] }

\* the exceptions a call of the model (planner or summarizer chain) may raise
LlmErrors == { [type |-> "APIConnectionError", message |-> <<"connection error">>] }

\* PydanticOutputParser(pydantic_object=TravelPlan).parse: the answer must be
\* JSON and satisfy the field constraints of TravelPlan
parser_parse(answer) ==
    IF "steps" \notin DOMAIN answer
    THEN Raise([type |-> "OutputParserException", message |-> <<"invalid json output">>])
    ELSE IF ~(answer.duration >= 1 /\ answer.duration <= 30 /\ answer.budget >= 100)
    THEN Raise([type |-> "OutputParserException", message |-> <<"failed to parse TravelPlan">>])
    ELSE Return(answer)

\* chain.invoke of prompt | llm | parser: the model raises, or its answer is
\* parsed
PlannerChainResults ==
    { Raise(e) : e \in LlmErrors } \cup { parser_parse(a) : a \in LlmPlanAnswers }

\* the texts the summarizer chain may stream, chunk by chunk
Narratives == { << >>, <<"travel advice ", "for the request">> }

\* json of a str and of None
json_str(t) == <<"'">> \o t \o <<"'">>

json_null == <<"null">>

\* StepResult.model_dump_json
step_result_json(r) ==
    [step_name |-> r.step_name, tool_name |-> r.tool_name, success |-> r.success,
     result |-> json_str(r.result),
     error_message |-> IF r.error_message = None THEN json_null
                       ELSE json_str(r.error_message[1])]

\* TravelPlan.model_dump_json
plan_json(p) ==
    [destination |-> p.destination, duration |-> p.duration, budget |-> p.budget,
     preferences |-> p.preferences, steps |-> p.steps]

\* ExecutionReport.model_dump_json
report_json(r) ==
    [plan |-> plan_json(r.plan),
     results |-> [k \in 1..Len(r.results) |-> step_result_json(r.results[k])],
     success_count |-> r.success_count, total_count |-> r.total_count,
     success_rate |-> r.success_rate]

NoPlan == TravelPlan(<< >>)

\* interactive_plan_execute_chat, lines 787-800: the next question is read
\* and process_request is entered; the locals of the request are fresh
interactive_input ==
    /\ pc # "new"
    /\ stage \in {"idle", "returned", "raised"}
    /\ \E q \in UserInputs : user_input' = q
    /\ stage' = "start"
    /\ plan' = NoPlan
    /\ plan_source' = "none"
    /\ pc' = "ready"
    /\ i' = 0
    /\ step_result' = << >>
    /\ results' = << >>
    /\ success_count' = 0
    /\ report' = << >>
    /\ executed' = << >>
    /\ invoked' = << >>
    /\ synth_input' = << >>
    /\ outcome' = << >>
    /\ UNCHANGED << available_tools, tools, peer >>
    /\ UNCHANGED service_vars

\* interactive_plan_execute_chat, lines 792-794: 'exit' ends the loop
interactive_exit ==
    /\ pc # "new"
    /\ stage \in {"idle", "returned", "raised"}
    /\ stage' = "exited"
    /\ UNCHANGED << available_tools, tools, plan, pc, i, step_result, results,
                    success_count, report, executed, invoked, user_input, plan_source,
                    synth_input, outcome, peer >>
    /\ UNCHANGED service_vars

\* create_plan without the try/except: the exception of the chain leaves
\* process_request
create_plan_no_try ==
    /\ stage = "start"
    /\ \E r \in PlannerChainResults :
          IF r.raised
          THEN /\ stage' = "raised"
               /\ outcome' = << [kind |-> "raised", exception |-> r.value] >>
               /\ UNCHANGED << plan, plan_source >>
          ELSE /\ plan' = r.value
               /\ plan_source' = "llm"
               /\ stage' = "planned"
               /\ UNCHANGED outcome
    /\ UNCHANGED << available_tools, tools, pc, i, step_result, results, success_count,
                    report, executed, invoked, user_input, synth_input, peer >>
    /\ UNCHANGED service_vars

\* TravelPlanner.create_plan, called at line 714: the plan of the chain, or
\* the default plan when the chain raises
create_plan ==
    /\ stage = "start"
    /\ \E r \in PlannerChainResults :
          IF r.raised
          THEN /\ plan' = _create_default_plan
               /\ plan_source' = "default"
          ELSE /\ plan' = r.value
               /\ plan_source' = "llm"
    /\ stage' = "planned"
    /\ UNCHANGED << available_tools, tools, pc, i, step_result, results, success_count,
                    report, executed, invoked, user_input, synth_input, outcome, peer >>
    /\ UNCHANGED service_vars

\* process_request, line 727: execute_plan runs once the plan is made
process_request_execute ==
    /\ stage = "planned"
    /\ \/ execute_plan_begin
       \/ execute_plan_call
       \/ execute_plan_record
       \/ execute_plan_return

\* the summarizer being given the steps that succeeded only
SummarizerInput_successes_only(request, p, r) ==
    [original_request |-> request, plan |-> plan_json(p),
     results |-> report_json([r EXCEPT !.results =
                    SelectSeq(r.results, LAMBDA x : x.success)])]

\* what the summarizer chain is streamed with
SummarizerInput(request, p, r) ==
    [original_request |-> request, plan |-> plan_json(p), results |-> report_json(r)]

\* process_request, lines 739-751, with the stream inside a try whose except
\* branch returns the raw report
process_request_summarize_fallback ==
    /\ stage = "planned"
    /\ pc = "done"
    /\ synth_input' = << SummarizerInput(user_input, plan, report[1]) >>
    /\ \/ \E n \in Narratives :
             /\ outcome' = << [kind |-> "returned", value |-> n] >>
             /\ stage' = "returned"
       \/ \E e \in LlmErrors :
             /\ outcome' = << [kind |-> "returned", value |-> <<"raw report">>,
                               report |-> report[1]] >>
             /\ stage' = "returned"
    /\ UNCHANGED << available_tools, tools, plan, pc, i, step_result, results,
                    success_count, report, executed, invoked, user_input, plan_source,
                    peer >>
    /\ UNCHANGED service_vars

\* process_request raising when a step of the plan has failed
process_request_summarize_needs_all_steps ==
    /\ stage = "planned"
    /\ pc = "done"
    /\ IF report[1].success_count < report[1].total_count
       THEN /\ outcome' = << [kind |-> "raised",
                              exception |-> [type |-> "RuntimeError",
                                             message |-> <<"a step failed">>]] >>
            /\ stage' = "raised"
            /\ UNCHANGED synth_input
       ELSE /\ synth_input' = << SummarizerInput(user_input, plan, report[1]) >>
            /\ \/ \E n \in Narratives :
                     /\ outcome' = << [kind |-> "returned", value |-> n] >>
                     /\ stage' = "returned"
               \/ \E e \in LlmErrors :
                     /\ outcome' = << [kind |-> "raised", exception |-> e] >>
                     /\ stage' = "raised"
    /\ UNCHANGED << available_tools, tools, plan, pc, i, step_result, results,
                    success_count, report, executed, invoked, user_input, plan_source,
                    peer >>
    /\ UNCHANGED service_vars

\* process_request going back to planning when a step of the plan has failed
process_request_summarize_replans ==
    /\ stage = "planned"
    /\ pc = "done"
    /\ IF report[1].success_count < report[1].total_count
       THEN /\ stage' = "start"
            /\ pc' = "ready"
            /\ UNCHANGED << synth_input, outcome >>
       ELSE /\ synth_input' = << SummarizerInput(user_input, plan, report[1]) >>
            /\ pc' = pc
            /\ \/ \E n \in Narratives :
                     /\ outcome' = << [kind |-> "returned", value |-> n] >>
                     /\ stage' = "returned"
               \/ \E e \in LlmErrors :
                     /\ outcome' = << [kind |-> "raised", exception |-> e] >>
                     /\ stage' = "raised"
    /\ UNCHANGED << available_tools, tools, plan, i, step_result, results,
                    success_count, report, executed, invoked, user_input, plan_source,
                    peer >>
    /\ UNCHANGED service_vars

\* process_request, lines 739-751: the summarizer chain is streamed with the
\* request, the plan and the report; the chunks are joined and returned, or
\* the exception of the chain leaves process_request (the loop of lines
\* 811-814 prints it and reads the next question)
process_request_summarize ==
    /\ stage = "planned"
    /\ pc = "done"
    /\ synth_input' = << SummarizerInput(user_input, plan, report[1]) >>
    /\ \/ \E n \in Narratives :
             /\ outcome' = << [kind |-> "returned", value |-> n] >>
             /\ stage' = "returned"
       \/ \E e \in LlmErrors :
             /\ outcome' = << [kind |-> "raised", exception |-> e] >>
             /\ stage' = "raised"
    /\ UNCHANGED << available_tools, tools, plan, pc, i, step_result, results,
                    success_count, report, executed, invoked, user_input, plan_source,
                    peer >>
    /\ UNCHANGED service_vars

\* the interrupt recording the steps not started as skipped and returning a
\* report of all the steps
KeyboardInterrupt_reports_skipped ==
    /\ pc # "new"
    /\ stage \in {"idle", "start", "planned"}
    /\ stage' = "interrupted"
    /\ IF stage = "planned" /\ pc \in {"loop", "record"}
       THEN LET all == results \o
                       [k \in 1..(Len(plan.steps) - Len(results)) |->
                           StepResult(plan.steps[Len(results) + k].step_name,
                                      plan.steps[Len(results) + k].tool_name,
                                      FALSE, << >>, Some(<<"skipped">>))]
            IN  /\ results' = all
                /\ report' = << ExecutionReport(plan, all, success_count, Len(plan.steps),
                                                zero) >>
       ELSE UNCHANGED << results, report >>
    /\ UNCHANGED << available_tools, tools, plan, pc, i, step_result,
                    success_count, executed, invoked, user_input, plan_source,
                    synth_input, outcome, peer >>
    /\ UNCHANGED service_vars

\* Ctrl-C while the loop waits for input or a request is processed:
\* KeyboardInterrupt is no Exception, so neither create_plan (line 575) nor
\* execute_step (line 619) catches it; it leaves process_request and the loop
\* ends at lines 808-810
KeyboardInterrupt ==
    /\ pc # "new"
    /\ stage \in {"idle", "start", "planned"}
    /\ stage' = "interrupted"
    /\ UNCHANGED << available_tools, tools, plan, pc, i, step_result, results,
                    success_count, report, executed, invoked, user_input, plan_source,
                    synth_input, outcome, peer >>
    /\ UNCHANGED service_vars

\* The interactive session: the agent is constructed, then requests are
\* read and processed one after the other.
InitAgent ==
    /\ available_tools = get_available_tools
    /\ tools = << >>
    /\ plan = NoPlan
    /\ pc = "new"
    /\ i = 0
    /\ step_result = << >>
    /\ results = << >>
    /\ success_count = 0
    /\ report = << >>
    /\ executed = << >>
    /\ invoked = << >>
    /\ stage = "idle"
    /\ user_input \in UserInputs
    /\ plan_source = "none"
    /\ synth_input = << >>
    /\ outcome = << >>
    /\ peer = NoPeer
    /\ ServiceIdle

NextAgent ==
    \/ TravelExecutor_init
    \/ interactive_input
    \/ interactive_exit
    \/ create_plan
    \/ process_request_execute
    \/ process_request_summarize
    \/ KeyboardInterrupt

SpecAgent == InitAgent /\ [][NextAgent]_vars

---------------------------------------------------------------------------
(***************************************************************************)
(* Properties of the pipeline                                              *)
(***************************************************************************)
\* the parameters a tool converts with int()
IntegerParameters(tool_name) ==
    CASE tool_name = "get_weather_forecast" -> {"days"}
      [] tool_name = "search_attractions_by_preference" -> {"duration"}
      [] tool_name = "search_accommodation" -> {"budget_per_night", "duration"}
      [] tool_name = "calculate_budget_breakdown" ->
            {"total_budget", "transportation_cost", "accommodation_cost", "attraction_cost"}
      [] OTHER -> {}

\* the step gives a non-numeric string for an integer-meaning parameter
TypeMismatch(step) ==
    \E n \in IntegerParameters(step.tool_name) \cap DOMAIN step.parameters :
        IsValueError(step.parameters[n])

WellFormed(p) ==
    /\ DOMAIN p = {"destination", "duration", "budget", "preferences", "steps"}
    /\ p.duration >= 1 /\ p.duration <= 30
    /\ p.budget >= 100
    /\ \A k \in 1..Len(p.steps) :
          DOMAIN p.steps[k] = {"step_name", "tool_name", "parameters"}

\* C13: when the plan generator fails or answers with a malformed or
\* unparsable response, the planner does not crash: the failure is replaced
\* by the default plan (it is never surfaced by the code), no exception
\* leaves process_request from planning, and the pipeline goes on with a
\* well-formed plan only.
C13_PlannerFailureFallsBack ==
    /\ stage \in {"planned", "returned", "raised"} =>
          /\ plan_source \in {"llm", "default"}
          /\ WellFormed(plan)
          /\ plan_source = "default" => plan = _create_default_plan
    /\ stage = "raised" => pc = "done" /\ Len(synth_input) = 1
    /\ executed # << >> => WellFormed(plan)
    /\ stage = "start" => ENABLED create_plan

\* the generator failed, the default plan was executed and a narrative
\* returned
C13_Witness ==
    /\ plan_source = "default"
    /\ plan = _create_default_plan
    /\ stage = "returned"
    /\ report[1].total_count = 3

StageRank(st) ==
    CASE st = "idle" -> 0
      [] st = "start" -> 1
      [] st = "planned" -> 2
      [] st \in {"returned", "raised"} -> 3
      [] st \in {"interrupted", "exited"} -> 4

\* a step of a request in progress goes forward
StageAdvances ==
    stage \in {"start", "planned", "interrupted", "exited"} =>
        /\ StageRank(stage') >= StageRank(stage)
        /\ stage = "planned" => plan' = plan
        /\ Len(executed') >= Len(executed)
        /\ Len(results') >= Len(results)
        /\ pc = "done" => (pc' = "done" /\ results' = results /\ executed' = executed)

\* C15: within one request the stages run strictly left to right: no tool
\* is invoked before planning has produced the plan, the summarizer is
\* called only after every step of the plan has a recorded result, and no
\* stage is entered again once a later one has started: the plan is not
\* changed after planning and nothing is executed after the report.
C15_StagesLeftToRight ==
    /\ [](stage \in {"idle", "start"} =>
             (pc \in {"new", "ready"} /\ executed = << >> /\ invoked = << >>))
    /\ [](synth_input # << >> =>
             (/\ pc = "done"
              /\ Len(results) = Len(plan.steps)
              /\ stage \in {"returned", "raised", "exited"}))
    /\ [][StageAdvances]_vars

\* a request has gone through planning, the execution of two steps and the
\* summarizer
C15_Witness ==
    /\ stage = "returned"
    /\ plan_source = "llm"
    /\ Len(results) = 2
    /\ Len(invoked) = 2
    /\ Len(synth_input) = 1

\* C16: the summarizer is given the original request and the whole
\* ExecutionReport as the executor produced it, the results of the failed
\* steps included: the dump holds one entry per step of the plan, in order,
\* with the fields of the result.
C16_SummarizerGetsFullReport ==
    synth_input # << >> =>
        LET x == synth_input[1]
        IN  /\ x.original_request = user_input
            /\ x.plan.steps = plan.steps
            /\ x.results.plan.steps = plan.steps
            /\ x.results.success_count = report[1].success_count
            /\ x.results.total_count = report[1].total_count
            /\ Len(x.results.results) = Len(plan.steps)
            /\ \A k \in 1..Len(x.results.results) :
                  /\ x.results.results[k].step_name = results[k].step_name
                  /\ x.results.results[k].tool_name = results[k].tool_name
                  /\ x.results.results[k].success = results[k].success
                  /\ x.results.results[k].result = json_str(results[k].result)
                  /\ x.results.results[k].error_message =
                        IF results[k].success THEN json_null
                        ELSE json_str(results[k].error_message[1])

\* the summarizer was given a report whose first result is the failure of
\* an unknown tool
C16_Witness ==
    /\ Len(synth_input) = 1
    /\ Len(synth_input[1].results.results) = 2
    /\ ~synth_input[1].results.results[1].success
    /\ synth_input[1].results.results[1].error_message
          = json_str(<<"unknown tool: ", "book_flight">>)
    /\ synth_input[1].results.results[2].success

\* C18 as stated: if the request is cancelled during execution before a step
\* starts, no further step is started and every step not started is
\* recorded as a skipped result, so that a report with
\* total_count = len(plan.steps) is still produced.
C18_SkippedStepsReported ==
    (stage = "interrupted" /\ plan_source # "none" /\ pc = "loop") =>
        /\ Len(report) = 1
        /\ report[1].total_count = Len(plan.steps)
        /\ Len(report[1].results) = Len(plan.steps)

\* the interrupted request has no outcome, no report and no result for a
\* step that was not executed
NothingForTheCaller ==
    /\ outcome = << >>
    /\ synth_input = << >>
    /\ pc \in {"ready", "loop", "record"} =>
          /\ report = << >>
          /\ Len(results) <= Len(executed)
          /\ \A k \in 1..Len(results) :
                results[k] = execute_step(tools, plan.steps[k]).value

\* C18 as amended: if the request is interrupted (KeyboardInterrupt) during
\* execution before a step starts, no further step is started; the steps not
\* started get no result of any kind, execute_plan returns no report,
\* process_request returns nothing and the interactive loop ends.
C18_InterruptEndsRequest ==
    /\ [](stage = "interrupted" => NothingForTheCaller)
    /\ [][stage = "interrupted" => UNCHANGED vars]_vars

\* the interrupt came after the first of two steps was recorded and before
\* the second was started
C18_Witness ==
    /\ stage = "interrupted"
    /\ pc = "loop"
    /\ Len(plan.steps) = 2
    /\ Len(results) = 1
    /\ Len(executed) = 1
    /\ report = << >>

\* execute_plan is waiting for a tool that never returns
InBlockingCall ==
    /\ pc = "loop"
    /\ i <= Len(plan.steps)
    /\ Blocked(tools, plan.steps[i])

BlockingCallStays == InBlockingCall => UNCHANGED vars

C20_PlanUnchanged ==
    /\ [][plan' = plan]_vars
    /\ [](pc = "done" => (report[1].plan = plan /\ Len(report[1].plan.steps) = Len(results)))

\* a plan of three steps, one of them failing, has been executed and is the
\* plan of the report
C20_Witness ==
    /\ pc = "done"
    /\ Len(plan.steps) = 3
    /\ report[1].plan = plan
    /\ report[1].success_count = 2

\* the report of execute_plan(p) on an executor that runs nothing else
RunAlone(p) ==
    LET registry == dict_of(available_tools)
        rs == [k \in 1..Len(p.steps) |-> execute_step(registry, p.steps[k]).value]
        sc == Cardinality({ k \in 1..Len(p.steps) : rs[k].success })
    IN  ExecutionReport(p, rs, sc, Len(p.steps),
                        IF Len(p.steps) > 0 THEN truediv(sc, Len(p.steps)).value ELSE zero)

RegistryReadOnly == pc # "new" => tools' = tools

\* C19: the tool registry is only read while requests are processed, and of
\* two calls of execute_plan whose steps interleave on one executor each
\* returns the report it would return if it ran alone.
C19_ConcurrentCallsIsolated ==
    /\ [][RegistryReadOnly]_vars
    /\ [](pc # "new" => tools = dict_of(available_tools))
    /\ [](pc = "done" => report[1] = RunAlone(plan))
    /\ [](peer.pc = "done" => peer.report[1] = RunAlone(peer.plan))
    /\ [](pc # "crashed" /\ peer.pc # "crashed")

\* both calls have returned, for different plans of two steps, after the
\* second call recorded a result between two steps of the first
C19_Witness ==
    /\ pc = "done"
    /\ peer.pc = "done"
    /\ Len(plan.steps) = 2
    /\ Len(peer.plan.steps) = 2
    /\ plan # peer.plan
    /\ report[1].success_count = 1
    /\ peer.report[1].success_count = 0

\* C21: there is no data flow between steps: the tool name and the
\* parameters step k is invoked with are those written in the plan, whatever
\* the results of the steps before it were, and a step is invoked at most
\* once.
C21_NoDataFlowBetweenSteps ==
    /\ \A c \in 1..Len(invoked) :
          /\ invoked[c].index \in 1..Len(plan.steps)
          /\ invoked[c].tool_name = plan.steps[invoked[c].index].tool_name
          /\ invoked[c].parameters = plan.steps[invoked[c].index].parameters
    /\ \A k \in 1..Len(results) :
          /\ Cardinality(InvocationsOf(k)) = IF Registered(plan.steps[k]) THEN 1 ELSE 0
          /\ results[k] = execute_step(tools, plan.steps[k]).value

\* a step was invoked with the parameters of the plan after a step that
\* succeeded and a step that failed
C21_Witness ==
    /\ pc = "done"
    /\ Len(results) = 3
    /\ results[1].success
    /\ ~results[2].success
    /\ InvocationsOf(3) # {}
    /\ \A c \in InvocationsOf(3) : invoked[c].parameters = plan.steps[3].parameters

\* the tool returns an error text for the step instead of raising
ReturnsErrorText(step) ==
    /\ Returns(step)
    /\ invoke(tools[step.tool_name], step.parameters).value[1] = "error: days '"

\* C25: execute_step records success = true exactly when the tool of the
\* step is registered and its invocation returns without raising, whatever
\* the payload: a tool that returns an error text is recorded as a
\* successful step and counted in success_count.
C25_SuccessIffReturned ==
    /\ \A k \in 1..Len(results) :
          /\ results[k].success <=> Returns(plan.steps[k])
          /\ ReturnsErrorText(plan.steps[k]) =>
                (results[k].success /\ results[k].result[1] = "error: days '")
    /\ pc = "done" =>
          report[1].success_count
             = Cardinality({ k \in 1..Len(plan.steps) : Returns(plan.steps[k]) })

\* a plan whose only successful step is the weather forecast for 'abc' days
\* has been executed: the step is counted
C25_Witness ==
    /\ pc = "done"
    /\ Len(plan.steps) = 2
    /\ ReturnsErrorText(plan.steps[1])
    /\ ~Registered(plan.steps[2])
    /\ report[1].success_count = 1

\* C26: the plan used when planning fails is the same for every user input,
\* has exactly three steps, and every step names a tool of the executor's
\* map: executing it gives no unknown-tool failure and total_count = 3.
C26_FallbackPlanIsExecutable ==
    plan_source = "default" =>
        /\ plan = _create_default_plan
        /\ Len(plan.steps) = 3
        /\ \A k \in 1..3 : plan.steps[k].tool_name \in DOMAIN dict_of(get_available_tools)
        /\ \A k \in 1..Len(results) :
              results[k].error_message # Some(<<"unknown tool: ", plan.steps[k].tool_name>>)
        /\ Len(report) = 1 => report[1].total_count = 3

\* planning failed for the second user input and the default plan was
\* executed
C26_Witness ==
    /\ plan_source = "default"
    /\ user_input = "weekend in Chengdu"
    /\ pc = "done"
    /\ report[1].total_count = 3
    /\ report[1].success_count = 3

---------------------------------------------------------------------------
(***************************************************************************)
(* web_project: registration (app/api/auth.py, app/utils/helpers.py)       *)
(***************************************************************************)
pipeline_vars == << available_tools, tools, plan, pc, i, step_result, results,
                    success_count, report, executed, invoked, agent_vars >>

\* the travel agent is not running
PipelineIdle ==
    /\ available_tools = get_available_tools
    /\ tools = << >>
    /\ plan = NoPlan
    /\ pc = "new"
    /\ i = 0
    /\ step_result = << >>
    /\ results = << >>
    /\ success_count = 0
    /\ report = << >>
    /\ executed = << >>
    /\ invoked = << >>
    /\ stage = "idle"
    /\ user_input = "trip to Beijing"
    /\ plan_source = "none"
    /\ synth_input = << >>
    /\ outcome = << >>
    /\ peer = NoPeer

Usernames == {"testuser", "differentuser", "thirduser"}
Emails == {"test@example.com", "other@example.com", "third@example.com"}
Passwords == {"testpassword123"}

\* db.query(User).filter(User.username == username).first()
get_user_by_username(db_users, username) ==
    LET hits == { k \in 1..Len(db_users) : db_users[k].username = username }
    IN  IF hits = {} THEN None
        ELSE Some(db_users[CHOOSE k \in hits : \A j \in hits : k <= j])

\* db.query(User).filter(User.email == email).first()
get_user_by_email(db_users, email) ==
    LET hits == { k \in 1..Len(db_users) : db_users[k].email = email }
    IN  IF hits = {} THEN None
        ELSE Some(db_users[CHOOSE k \in hits : \A j \in hits : k <= j])

\* pwd_context.hash(password)
get_password_hash(password) == <<"hash of ", password>>

\* User(**user_data), db.add, db.commit: the row gets the next id
create_user(db_users, user_data) ==
    Append(db_users, [id |-> Len(db_users) + 1,
                      username |-> user_data.username,
                      email |-> user_data.email,
                      hashed_password |-> user_data.hashed_password])

\* the response of POST /api/auth/register
RegisterResponse(user_data, status_code, detail) ==
    [op |-> "register", username |-> user_data.username, email |-> user_data.email,
     status_code |-> status_code, detail |-> detail]

\* register without the test of the email
register_no_email_check ==
    \E user_data \in [username : Usernames, email : Emails, password : Passwords] :
        /\ IF get_user_by_username(users, user_data.username) # None
           THEN /\ response' = RegisterResponse(user_data, 400, "Username already registered")
                /\ UNCHANGED users
           ELSE /\ users' = create_user(users,
                                [username |-> user_data.username,
                                 email |-> user_data.email,
                                 hashed_password |-> get_password_hash(user_data.password)])
                /\ response' = RegisterResponse(user_data, 201, "")
        /\ UNCHANGED << tasks, now, chat_history_store, session_metadata, next_oid,
                        deleted >>
        /\ UNCHANGED pipeline_vars

\* POST /api/auth/register
register ==
    \E user_data \in [username : Usernames, email : Emails, password : Passwords] :
        /\ IF get_user_by_username(users, user_data.username) # None
           THEN /\ response' = RegisterResponse(user_data, 400, "Username already registered")
                /\ UNCHANGED users
           ELSE IF get_user_by_email(users, user_data.email) # None
           THEN /\ response' = RegisterResponse(user_data, 400, "Email already registered")
                /\ UNCHANGED users
           ELSE /\ users' = create_user(users,
                                [username |-> user_data.username,
                                 email |-> user_data.email,
                                 hashed_password |-> get_password_hash(user_data.password)])
                /\ response' = RegisterResponse(user_data, 201, "")
        /\ UNCHANGED << tasks, now, chat_history_store, session_metadata, next_oid,
                        deleted >>
        /\ UNCHANGED pipeline_vars

\* An empty users table and any sequence of register requests.
InitAuth == PipelineIdle /\ ServiceIdle

NextAuth == register

SpecAuth == InitAuth /\ [][NextAuth]_vars

\* the request of the step names a user name or an email of the table: it
\* is answered 400 and the table is left as it was
RegisterDuplicateRejected ==
    response'.op = "register" =>
        /\ get_user_by_username(users, response'.username) # None =>
              /\ response'.status_code = 400
              /\ response'.detail = "Username already registered"
              /\ users' = users
        /\ (/\ get_user_by_username(users, response'.username) = None
            /\ get_user_by_email(users, response'.email) # None) =>
              /\ response'.status_code = 400
              /\ response'.detail = "Email already registered"
              /\ users' = users
        /\ response'.status_code = 400 => users' = users

\* C22: registering a user whose username or email is already registered is
\* rejected with status 400 ("Username already registered" / "Email already
\* registered") and creates no user; after any sequence of register calls
\* no two users share a username or an email.
C22_DuplicateRegistrationRejected ==
    /\ [][RegisterDuplicateRejected]_vars
    /\ [](\A j, k \in 1..Len(users) :
             j # k => (users[j].username # users[k].username /\ users[j].email # users[k].email))

\* with two users registered, a registration under a new name and the email
\* of the first user was rejected
C22_Witness ==
    /\ Len(users) = 2
    /\ response.op = "register"
    /\ response.status_code = 400
    /\ response.detail = "Email already registered"
    /\ response.username = "thirduser"
    /\ response.email = users[1].email

---------------------------------------------------------------------------
(***************************************************************************)
(* web_project: tasks (app/api/tasks.py, app/utils/helpers.py,             *)
(* app/models/task.py, app/schemas/task.py)                                *)
(***************************************************************************)
MaxRequests == 4

TaskStatus == {"pending", "in_progress", "completed", "cancelled"}

\* the ids requests name: the first two the table hands out and one it
\* never hands out
TaskIds == {1, 2, 999}

\* Task(**task_data) with the column defaults of the model
Task(id, owner_id, title) ==
    [id |-> id, owner_id |-> owner_id, title |-> title, status |-> "pending",
     is_completed |-> FALSE, completed_at |-> None]

\* the id of the next row: the column is Integer primary_key=True on SQLite
\* (config.database_url), a rowid alias without AUTOINCREMENT, which is one
\* more than the largest id in the table
next_task_id(db_tasks) ==
    IF DOMAIN db_tasks = {} THEN 1
    ELSE 1 + CHOOSE m \in DOMAIN db_tasks : \A k \in DOMAIN db_tasks : k <= m

\* the ids of a set of rows as a list, in id order
RECURSIVE in_id_order(_)
in_id_order(ids) ==
    IF ids = {} THEN << >>
    ELSE LET m == CHOOSE x \in ids : \A y \in ids : x <= y
         IN  <<m>> \o in_id_order(ids \ {m})

\* db.query(Task).filter(Task.owner_id == user_id) [.filter(Task.status == status)]
\*   .offset(skip).limit(limit).all(), as the list of the ids of the rows
get_tasks_by_user(db_tasks, user_id, skip, limit, status) ==
    LET hits == { k \in DOMAIN db_tasks :
                    /\ db_tasks[k].owner_id = user_id
                    /\ status # None => db_tasks[k].status = status[1] }
        all == in_id_order(hits)
    IN  SubSeq(all, skip + 1, Min(Len(all), skip + limit))

\* the lookup without the filter on the owner
get_task_by_id_any_owner(db_tasks, task_id, user_id) ==
    IF task_id \in DOMAIN db_tasks THEN Some(db_tasks[task_id]) ELSE None

\* db.query(Task).filter(Task.id == task_id, Task.owner_id == user_id).first()
get_task_by_id(db_tasks, task_id, user_id) ==
    IF task_id \in DOMAIN db_tasks /\ db_tasks[task_id].owner_id = user_id
    THEN Some(db_tasks[task_id])
    ELSE None

create_task(db_tasks, task_data, user_id) ==
    LET id == next_task_id(db_tasks)
    IN  [k \in DOMAIN db_tasks \cup {id} |->
            IF k = id THEN Task(id, user_id, task_data.title) ELSE db_tasks[k]]

\* update_data.get(field): None for a field the dict has not
dict_get(update_data, field) ==
    IF field \in DOMAIN update_data THEN update_data[field] ELSE None

\* the fields of update_data that are not None, written to the row
set_fields(task, update_data) ==
    [f \in DOMAIN task |->
        IF f \in DOMAIN update_data /\ update_data[f] # None
        THEN update_data[f][1] ELSE task[f]]

\* update_task that marks the row complete without the completion time
update_task_no_completed_at(task, update_data, at) ==
    LET written == set_fields(task, update_data)
    IN  IF dict_get(update_data, "is_completed") = Some(TRUE)
           \/ dict_get(update_data, "status") = Some("completed")
        THEN [written EXCEPT !.is_completed = TRUE, !.status = "completed"]
        ELSE written

\* update_task: the row after the update
update_task(task, update_data, at) ==
    LET written == set_fields(task, update_data)
    IN  IF dict_get(update_data, "is_completed") = Some(TRUE)
           \/ dict_get(update_data, "status") = Some("completed")
        THEN [written EXCEPT !.is_completed = TRUE, !.status = "completed",
                             !.completed_at = Some(at)]
        ELSE written

\* a table with one row replaced
put_row(db_tasks, row) == [db_tasks EXCEPT ![row.id] = row]

\* delete_task answering True and leaving the row in the table
delete_task_keeps_row(db_tasks, task, commits) ==
    [ok |-> TRUE, tasks |-> db_tasks]

\* delete_task: True and the table without the row, or False and the table
\* as it was when db.delete or db.commit raises
delete_task(db_tasks, task, commits) ==
    IF commits
    THEN [ok |-> TRUE, tasks |-> [k \in DOMAIN db_tasks \ {task.id} |-> db_tasks[k]]]
    ELSE [ok |-> FALSE, tasks |-> db_tasks]

\* the values a TaskUpdate body gives a field: a value, or null
TitleValues == {Some("renamed")}
StatusValues == {None, Some("pending"), Some("completed")}
IsCompletedValues == {Some(TRUE), Some(FALSE)}

\* task_update.dict(exclude_unset=True): the fields the body sets
TaskUpdates ==
    { [f \in fs |-> v[f]] :
        fs \in SUBSET {"title", "status", "is_completed"},
        v \in [title : TitleValues, status : StatusValues, is_completed : IsCompletedValues] }

\* the response of a task endpoint
TaskResponse(op, user_id, task_id, status_code, detail, new_status) ==
    [op |-> op, user |-> user_id, task_id |-> task_id, status_code |-> status_code,
     detail |-> detail, new_status |-> new_status]

NotFound(op, user_id, task_id, new_status) ==
    TaskResponse(op, user_id, task_id, 404, "Task not found", new_status)

\* every request is made by a user of the table that get_current_active_user
\* has authenticated, at the next reading of the clock
Request(current_user) ==
    /\ now < MaxRequests
    /\ now' = now + 1
    /\ current_user \in 1..Len(users)
    /\ UNCHANGED << users, chat_history_store, session_metadata, next_oid >>
    /\ UNCHANGED pipeline_vars

\* POST /api/tasks/
create_new_task ==
    \E current_user \in 1..Len(users) :
        /\ Request(current_user)
        /\ tasks' = create_task(tasks, [title |-> "test task"], current_user)
        /\ response' = TaskResponse("create", current_user, next_task_id(tasks), 201, "", None)
        /\ UNCHANGED deleted

\* GET /api/tasks/: the page of the user's tasks and the count of them all
read_tasks ==
    \E current_user \in 1..Len(users), skip \in {0, 1}, limit \in {1, 10},
       status \in {None, Some("completed")} :
        /\ Request(current_user)
        /\ LET page_tasks == get_tasks_by_user(tasks, current_user, skip, limit, status)
               total_query == Cardinality({ k \in DOMAIN tasks :
                                  /\ tasks[k].owner_id = current_user
                                  /\ status # None => tasks[k].status = status[1] })
           IN  response' = [op |-> "list", user |-> current_user, status_code |-> 200,
                            status |-> status, tasks |-> page_tasks, total |-> total_query,
                            page |-> (skip \div limit) + 1, size |-> Len(page_tasks),
                            pages |-> (total_query + limit - 1) \div limit]
        /\ UNCHANGED << tasks, deleted >>

\* GET /api/tasks/{task_id}
read_task ==
    \E current_user \in 1..Len(users), task_id \in TaskIds :
        /\ Request(current_user)
        /\ LET task == get_task_by_id(tasks, task_id, current_user)
           IN  response' = IF task = None
                           THEN NotFound("read", current_user, task_id, None)
                           ELSE TaskResponse("read", current_user, task_id, 200, "", None)
        /\ UNCHANGED << tasks, deleted >>

\* PUT /api/tasks/{task_id}
update_existing_task ==
    \E current_user \in 1..Len(users), task_id \in TaskIds, update_data \in TaskUpdates :
        /\ Request(current_user)
        /\ LET task == get_task_by_id(tasks, task_id, current_user)
               new_status == dict_get(update_data, "status")
           IN  IF task = None
               THEN /\ response' = NotFound("update", current_user, task_id, new_status)
                    /\ UNCHANGED tasks
               ELSE /\ tasks' = put_row(tasks, update_task(task[1], update_data, now'))
                    /\ response' = TaskResponse("update", current_user, task_id, 200, "",
                                                new_status)
        /\ UNCHANGED deleted

\* DELETE /api/tasks/{task_id}
delete_existing_task ==
    \E current_user \in 1..Len(users), task_id \in TaskIds, commits \in BOOLEAN :
        /\ Request(current_user)
        /\ LET task == get_task_by_id(tasks, task_id, current_user)
           IN  IF task = None
               THEN /\ response' = NotFound("delete", current_user, task_id, None)
                    /\ UNCHANGED << tasks, deleted >>
               ELSE LET success == delete_task(tasks, task[1], commits)
                    IN  /\ tasks' = success.tasks
                        /\ IF ~success.ok
                           THEN /\ response' = TaskResponse("delete", current_user, task_id,
                                                  500, "Failed to delete task", None)
                                /\ UNCHANGED deleted
                           ELSE /\ response' = TaskResponse("delete", current_user, task_id,
                                                  200, "Task deleted successfully", None)
                                /\ deleted' = deleted \cup {task_id}

\* PATCH /api/tasks/{task_id}/complete
complete_task ==
    \E current_user \in 1..Len(users), task_id \in TaskIds :
        /\ Request(current_user)
        /\ LET task == get_task_by_id(tasks, task_id, current_user)
               update_data == [is_completed |-> Some(TRUE), status |-> Some("completed")]
           IN  IF task = None
               THEN /\ response' = NotFound("complete", current_user, task_id, None)
                    /\ UNCHANGED tasks
               ELSE /\ tasks' = put_row(tasks, update_task(task[1], update_data, now'))
                    /\ response' = TaskResponse("complete", current_user, task_id, 200, "",
                                                None)
        /\ UNCHANGED deleted

\* PATCH /api/tasks/{task_id}/status
update_task_status ==
    \E current_user \in 1..Len(users), task_id \in TaskIds, new_status \in TaskStatus :
        /\ Request(current_user)
        /\ LET task == get_task_by_id(tasks, task_id, current_user)
               update_data == IF new_status = "completed"
                              THEN [status |-> Some(new_status), is_completed |-> Some(TRUE)]
                              ELSE [status |-> Some(new_status)]
           IN  IF task = None
               THEN /\ response' = NotFound("status", current_user, task_id, Some(new_status))
                    /\ UNCHANGED tasks
               ELSE /\ tasks' = put_row(tasks, update_task(task[1], update_data, now'))
                    /\ response' = TaskResponse("status", current_user, task_id, 200, "",
                                                Some(new_status))
        /\ UNCHANGED deleted

\* the users the requests are made by
TestUsers ==
    create_user(create_user(<< >>, [username |-> "testuser", email |-> "test@example.com",
                                    hashed_password |-> get_password_hash("testpassword123")]),
                [username |-> "differentuser", email |-> "other@example.com",
                 hashed_password |-> get_password_hash("testpassword123")])

\* Two registered users and an empty tasks table.
InitTasks ==
    /\ PipelineIdle
    /\ users = TestUsers
    /\ tasks = << >>
    /\ response = NoResponse
    /\ now = 0
    /\ chat_history_store = << >>
    /\ session_metadata = << >>
    /\ next_oid = 1
    /\ deleted = {}

NextTasks ==
    \/ create_new_task
    \/ read_tasks
    \/ read_task
    \/ update_existing_task
    \/ delete_existing_task
    \/ complete_task
    \/ update_task_status

SpecTasks == InitTasks /\ [][NextTasks]_vars

---------------------------------------------------------------------------
(***************************************************************************)
(* Properties of the task manager                                          *)
(***************************************************************************)
\* the endpoints that take a task id
TaskOps == {"read", "update", "delete", "complete", "status"}

Completed(task) ==
    /\ task.is_completed
    /\ task.status = "completed"
    /\ task.completed_at # None

\* C23: after the owner marks a task complete it has is_completed = true,
\* status = completed and a completed_at that is not null; the same holds
\* when the status endpoint or an update sets status to completed.
C23_CompleteSetsAllThree ==
    (/\ response.op \in {"complete", "update", "status"}
     /\ response.status_code = 200
     /\ response.op = "complete" \/ response.new_status = Some("completed"))
    => /\ response.task_id \in DOMAIN tasks
       /\ tasks[response.task_id].owner_id = response.user
       /\ Completed(tasks[response.task_id])
       /\ tasks[response.task_id].completed_at = Some(now)

\* an update (PUT) that set status to completed was answered 200 and the
\* task is complete
C23_Witness ==
    /\ response.op = "update"
    /\ response.status_code = 200
    /\ response.new_status = Some("completed")
    /\ Completed(tasks[response.task_id])

\* a request for an id whose deletion succeeded is answered 404
DeletedStaysNotFound ==
    (/\ now' # now
     /\ response'.op \in TaskOps
     /\ response'.task_id \in deleted \cup {999})
    => (response'.status_code = 404 /\ response'.detail = "Task not found")

\* C24 as stated: after a task is deleted successfully by its owner, every
\* later read, update, complete or delete of that task id returns 404 "Task
\* not found"; a task id that was never created also returns 404.
C24_DeletedTaskStaysNotFound == [][DeletedStaysNotFound]_vars

\* a request for a task id is answered 404 exactly when the caller owns no
\* row of that id, and a successful delete leaves no row of the id
NotFoundIffNoRow ==
    (now' # now /\ response'.op \in TaskOps) =>
        /\ response'.status_code = 404 <=>
              ~(/\ response'.task_id \in DOMAIN tasks
                /\ tasks[response'.task_id].owner_id = response'.user)
        /\ response'.status_code = 404 =>
              (response'.detail = "Task not found" /\ tasks' = tasks)
        /\ (response'.op = "delete" /\ response'.status_code = 200) =>
              (response'.task_id \notin DOMAIN tasks' /\ response'.task_id \in deleted')
        /\ response'.task_id = 999 => response'.status_code = 404

\* C24 as amended: a read, update, complete, status change or delete of a
\* task id returns 404 "Task not found" exactly when no task of that id owned
\* by the caller exists: so right after a successful delete, and for an id
\* that was never created. The id of a deleted task can be given to a task
\* created later (the table hands out the largest id plus one), and then
\* requests for that id find the new task.
C24_NotFoundWhileNoSuchTask ==
    /\ [][NotFoundIffNoRow]_vars
    /\ [](999 \notin DOMAIN tasks)

\* the owner deleted task 1, created another task, which got id 1 again,
\* and read it
C24_Witness ==
    /\ response.op = "read"
    /\ response.status_code = 200
    /\ response.task_id \in deleted
    /\ response.task_id \in DOMAIN tasks

\* a request of a user leaves the tasks of the other users alone and shows
\* none of them
OwnerIsolation ==
    now' # now =>
        /\ (/\ response'.op \in TaskOps
            /\ response'.task_id \in DOMAIN tasks
            /\ tasks[response'.task_id].owner_id # response'.user)
           => (/\ response'.status_code = 404
               /\ response'.detail = "Task not found"
               /\ tasks' = tasks)
        /\ \A k \in DOMAIN tasks :
              tasks[k].owner_id # response'.user => (k \in DOMAIN tasks' /\ tasks'[k] = tasks[k])
        /\ response'.op = "create" =>
              tasks'[response'.task_id].owner_id = response'.user
        /\ response'.op = "list" =>
              /\ \A k \in 1..Len(response'.tasks) :
                    /\ response'.tasks[k] \in DOMAIN tasks
                    /\ tasks[response'.tasks[k]].owner_id = response'.user
              /\ response'.total =
                    Cardinality({ k \in DOMAIN tasks :
                        /\ tasks[k].owner_id = response'.user
                        /\ response'.status # None => tasks[k].status = response'.status[1] })

\* C29: task operations are isolated per owner: for every task endpoint
\* (read, update, delete, complete, status) a user acting on a task owned by
\* another user gets 404 and the task is left unchanged, and a user's task
\* list and total count contain only tasks they own.
C29_TasksIsolatedPerOwner == [][OwnerIsolation]_vars

\* the second user asked to complete the task of the first and got 404; the
\* task is still pending
C29_Witness ==
    /\ response.op = "complete"
    /\ response.user = 2
    /\ response.status_code = 404
    /\ response.task_id \in DOMAIN tasks
    /\ tasks[response.task_id].owner_id = 1
    /\ tasks[response.task_id].status = "pending"

\* C30: after any sequence of create, update (PUT), complete and
\* status-change operations on a task, the task has status = completed if
\* and only if is_completed is true, and completed_at is not null whenever
\* status = completed.
C30_StatusMatchesIsCompleted ==
    \A k \in DOMAIN tasks :
        /\ tasks[k].status = "completed" <=> tasks[k].is_completed
        /\ tasks[k].status = "completed" => tasks[k].completed_at # None

---------------------------------------------------------------------------
(***************************************************************************)
(* model/chat_app.py: the session store                                    *)
(***************************************************************************)
MaxTime == 4
MaxHistories == 3

\* config["conversation"]["session_timeout"], in the unit of the clock
session_timeout == 2

SessionIds == {"session-a", "session-b"}

\* ChatMessageHistory(): a new object, with no messages
ChatMessageHistory(oid) == [oid |-> oid, messages |-> << >>]

\* clear_session_history that forgets the metadata of the session
clear_session_history_keeps_metadata(store, metadata, session_id) ==
    [chat_history_store |-> [k \in DOMAIN store \ {session_id} |-> store[k]],
     session_metadata |-> metadata]

\* clear_session_history: the two maps after the call
clear_session_history(store, metadata, session_id) ==
    [chat_history_store |-> [k \in DOMAIN store \ {session_id} |-> store[k]],
     session_metadata |-> [k \in DOMAIN metadata \ {session_id} |-> metadata[k]]]

\* clear_session_history for each id of a list, one after the other
RECURSIVE clear_each(_, _, _)
clear_each(store, metadata, sids) ==
    IF sids = << >> THEN [chat_history_store |-> store, session_metadata |-> metadata]
    ELSE LET first == clear_session_history(store, metadata, sids[1])
         IN  clear_each(first.chat_history_store, first.session_metadata,
                        SubSeq(sids, 2, Len(sids)))

\* the ids of a set as a list, in the order the dict yields them
RECURSIVE items(_)
items(sids) ==
    IF sids = {} THEN << >>
    ELSE LET sid == CHOOSE x \in sids : TRUE
         IN  <<sid>> \o items(sids \ {sid})

\* cleanup_expired_sessions counting a session as expired at the timeout
cleanup_expired_sessions_at_timeout(store, metadata, at) ==
    LET expired == items({ sid \in DOMAIN metadata :
                              at - metadata[sid].last_active >= session_timeout })
        cleared == clear_each(store, metadata, expired)
    IN  [chat_history_store |-> cleared.chat_history_store,
         session_metadata |-> cleared.session_metadata,
         count |-> Len(expired)]

\* cleanup_expired_sessions: the two maps after the call and what it returns
cleanup_expired_sessions(store, metadata, at) ==
    LET expired == items({ sid \in DOMAIN metadata :
                              at - metadata[sid].last_active > session_timeout })
        cleared == clear_each(store, metadata, expired)
    IN  [chat_history_store |-> cleared.chat_history_store,
         session_metadata |-> cleared.session_metadata,
         count |-> Len(expired)]

\* what the calls of the session store leave alone
ChatFrame ==
    /\ UNCHANGED << users, tasks, deleted >>
    /\ UNCHANGED pipeline_vars

\* datetime.now() reads a later time
clock_tick ==
    /\ now < MaxTime
    /\ now' = now + 1
    /\ UNCHANGED << response, chat_history_store, session_metadata, next_oid >>
    /\ ChatFrame

\* get_session_history(session_id)
get_session_history ==
    \E session_id \in SessionIds :
        /\ session_id \in DOMAIN chat_history_store \/ next_oid <= MaxHistories
        /\ LET store == IF session_id \notin DOMAIN chat_history_store
                        THEN [k \in DOMAIN chat_history_store \cup {session_id} |->
                                 IF k = session_id THEN ChatMessageHistory(next_oid)
                                 ELSE chat_history_store[k]]
                        ELSE chat_history_store
           IN  /\ chat_history_store' = store
               /\ next_oid' = IF session_id \notin DOMAIN chat_history_store
                              THEN next_oid + 1 ELSE next_oid
               /\ session_metadata' =
                     [k \in DOMAIN session_metadata \cup {session_id} |->
                         IF k = session_id THEN [last_active |-> now]
                         ELSE session_metadata[k]]
               /\ response' = [op |-> "get_session_history", session_id |-> session_id,
                               value |-> store[session_id].oid]
        /\ UNCHANGED now
        /\ ChatFrame

\* DELETE /api/history/{session_id}: clear_session_history(session_id)
clear_history ==
    \E session_id \in SessionIds :
        /\ LET after == clear_session_history(chat_history_store, session_metadata, session_id)
           IN  /\ chat_history_store' = after.chat_history_store
               /\ session_metadata' = after.session_metadata
        /\ response' = [op |-> "clear_session_history", session_id |-> session_id]
        /\ UNCHANGED << now, next_oid >>
        /\ ChatFrame

\* POST /api/cleanup: cleanup_expired_sessions()
cleanup_sessions ==
    /\ LET after == cleanup_expired_sessions(chat_history_store, session_metadata, now)
       IN  /\ chat_history_store' = after.chat_history_store
           /\ session_metadata' = after.session_metadata
           /\ response' = [op |-> "cleanup_expired_sessions", value |-> after.count,
                           at |-> now]
    /\ UNCHANGED << now, next_oid >>
    /\ ChatFrame

\* The module just imported: both maps empty.
InitChat == PipelineIdle /\ ServiceIdle

NextChat ==
    \/ clock_tick
    \/ get_session_history
    \/ clear_history
    \/ cleanup_sessions

SpecChat == InitChat /\ [][NextChat]_vars

---------------------------------------------------------------------------
(***************************************************************************)
(* Properties of the session store                                         *)
(***************************************************************************)
\* a call of get_session_history creates the history on first use and
\* returns the history the store holds otherwise
GetCreatesOnce ==
    (now' = now /\ response'.op = "get_session_history") =>
        LET sid == response'.session_id
        IN  /\ sid \in DOMAIN chat_history_store'
            /\ response'.value = chat_history_store'[sid].oid
            /\ sid \in DOMAIN chat_history_store =>
                  (/\ chat_history_store' = chat_history_store
                   /\ response'.value = chat_history_store[sid].oid)
            /\ sid \notin DOMAIN chat_history_store =>
                  (/\ chat_history_store'[sid].messages = << >>
                   /\ \A k \in DOMAIN chat_history_store :
                         /\ chat_history_store'[k] = chat_history_store[k]
                         /\ chat_history_store[k].oid # response'.value)
            /\ session_metadata'[sid].last_active = now

\* a call of clear_session_history removes the id from both maps and
\* changes nothing for an id the maps have not
ClearRemovesBoth ==
    (now' = now /\ response'.op = "clear_session_history") =>
        LET sid == response'.session_id
        IN  /\ sid \notin DOMAIN chat_history_store'
            /\ sid \notin DOMAIN session_metadata'
            /\ \A k \in DOMAIN chat_history_store \ {sid} :
                  /\ k \in DOMAIN chat_history_store'
                  /\ chat_history_store'[k] = chat_history_store[k]
                  /\ session_metadata'[k] = session_metadata[k]
            /\ sid \notin DOMAIN chat_history_store =>
                  (/\ chat_history_store' = chat_history_store
                   /\ session_metadata' = session_metadata)

\* C27: after any sequence of get_session_history, clear_session_history
\* and cleanup_expired_sessions calls the session ids of chat_history_store
\* are the ids of session_metadata; get_session_history(id) creates the
\* history on first use and returns the same history object on later calls
\* until it is cleared, and clear_session_history(id) removes the id from
\* both maps and is a no-op for an unknown id.
C27_SessionMapsAgree ==
    /\ [](DOMAIN chat_history_store = DOMAIN session_metadata)
    /\ [][GetCreatesOnce]_vars
    /\ [][ClearRemovesBoth]_vars

\* a later call for the first session returned the object of the first
\* call, after the second session was created
C27_Witness ==
    /\ response.op = "get_session_history"
    /\ response.session_id \in DOMAIN chat_history_store
    /\ response.value = 1
    /\ next_oid = 3
    /\ DOMAIN chat_history_store = SessionIds
    /\ now > session_metadata[CHOOSE k \in SessionIds : k # response.session_id].last_active

\* the sessions whose last_active is older than the timeout
Expired == { sid \in DOMAIN session_metadata :
                now - session_metadata[sid].last_active > session_timeout }

\* a call of cleanup_expired_sessions removes the expired sessions, leaves
\* the others as they are and returns how many it removed
CleanupRemovesExpired ==
    (now' = now /\ response'.op = "cleanup_expired_sessions") =>
        /\ DOMAIN session_metadata' = DOMAIN session_metadata \ Expired
        /\ DOMAIN chat_history_store' = DOMAIN chat_history_store \ Expired
        /\ \A k \in DOMAIN session_metadata \ Expired :
              /\ session_metadata'[k] = session_metadata[k]
              /\ chat_history_store'[k] = chat_history_store[k]
        /\ response'.value = Cardinality(Expired)

=============================================================================
